---- MODULE Spec2Model ----
(***************************************************************************)
(* Network state monitor of packages/core/src/network.ts: the signal       *)
(* readers, the classifier, the snapshot builder and the NetworkMonitor    *)
(* state machine with its listener registry, environment subscriptions     *)
(* and poll timer, and the two probes (measureDownloadSpeed,               *)
(* measureNetworkLatency) with measureNetworkPerformance.                  *)
(*                                                                         *)
(* Conventions.                                                            *)
(*  - An optional JavaScript value is a sequence: <<>> is undefined, <<v>> *)
(*    is the value v.                                                      *)
(*  - Throughput is counted in hundredths of Mbps (0.5 Mbps is 50), so the *)
(*    thresholds of the source stay integers.                              *)
(*  - A listener function is a name; its body is Behaviour(name).  A       *)
(*    registration is [fn, reg]: fn is what the code stores and compares,  *)
(*    reg numbers the addListener call that made it (observation only).    *)
(*  - A probe is followed from its call to its last host event; what time  *)
(*    the code sees is the run of its timers' callbacks.  Quotients stay   *)
(*    exact as [num, den].                                                 *)
(***************************************************************************)
EXTENDS Integers, Sequences, FiniteSets, TLC

\* ------------------------------------------------------------------ bounds

\* addListener calls in one run
MaxRegs == 3

\* ------------------------------------------------------- program constants

\* network.ts:137  downlink < 0.5
SlowBelow == 50
\* network.ts:139  downlink < 2
ModerateBelow == 200
\* network.ts:141  downlink < 10
GoodBelow == 1000
\* network.ts:113  downlink >= 50
FiveGDownlink == 5000
\* network.ts:113  rtt < 30
FiveGRtt == 30
\* network.ts:336  pollingIntervalMs default
DefaultPollingIntervalMs == 5000
\* network.ts:210  sampleSize default, bytes
DefaultSampleSize == 1000000
\* network.ts:211  timeoutMs default
DefaultTimeoutMs == 10000
\* network.ts:229  (endTime - startTime) / 1000
MsPerSecond == 1000
\* network.ts:230  sampleSize / 1000000
BytesPerMB == 1000000
\* network.ts:231  fileSizeMB * 8
BitsPerByte == 8
\* network.ts:249  samples default
DefaultSamples == 5
\* network.ts:267  setTimeout(resolve, 200)
PacingDelayMs == 200

\* ------------------------------------------------------------ JS optionals

None == <<>>

Some(v) == <<v>>

\* JavaScript truthiness of an optional string: undefined and "" are falsy
TruthyStr(o) == o # None /\ o[1] # ""

\* JavaScript truthiness of an optional number: undefined and 0 are falsy
TruthyNum(o) == o # None /\ o[1] # 0

\* ------------------------------------------------------------- environment

\* The connection descriptors the environment moves between.
Descriptor(t, e, d, r, sv) ==
    [type |-> t, effectiveType |-> e, downlink |-> d, rtt |-> r, saveData |-> sv]

EmptyDescriptor == Descriptor(None, None, None, None, None)

WifiDescriptor == Descriptor(Some("wifi"), Some("4g"), Some(1000), Some(50), Some(FALSE))

Descriptors ==
    { EmptyDescriptor,
      WifiDescriptor,
      [WifiDescriptor EXCEPT !.saveData = Some(TRUE)] }

\* Capability shapes of the host.  connectionThrows: the connection object
\* has no working addEventListener/removeEventListener.
Shape(w, n, o, c, t) ==
    [hasWindow |-> w, hasNavigator |-> n, hasOnLine |-> o, hasConnection |-> c,
     connectionThrows |-> t]

\* a browser page with the Network Information API
PageShape == Shape(TRUE, TRUE, TRUE, TRUE, FALSE)

\* a browser page without navigator.connection
PlainPageShape == Shape(TRUE, TRUE, TRUE, FALSE, FALSE)

\* a page whose connection object cannot be subscribed to
LegacyPageShape == Shape(TRUE, TRUE, TRUE, TRUE, TRUE)

\* a worker: navigator with onLine and connection, but no window
WorkerShape == Shape(FALSE, TRUE, TRUE, TRUE, FALSE)

\* a runtime with neither window nor navigator
BareShape == Shape(FALSE, FALSE, FALSE, FALSE, FALSE)

EnvShapes == {PageShape, PlainPageShape, LegacyPageShape, WorkerShape, BareShape}

\* The environments of one shape: the readable signals take every value, a
\* signal the shape does not expose is pinned.
EnvsOf(sh) ==
    { [shape |-> sh, onLine |-> o, descriptor |-> d] :
        o \in (IF sh.hasOnLine THEN BOOLEAN ELSE {TRUE}),
        d \in (IF sh.hasConnection THEN Descriptors ELSE {EmptyDescriptor}) }

\* The descriptors the classifier is examined on: every kind of type and
\* effectiveType the switch statements tell apart (with one value outside
\* each list), downlink and rtt absent, zero and on both sides of every
\* threshold.  Throughput is in hundredths of Mbps, rtt in ms.
WideTypes == {None, Some("ethernet"), Some("wifi"), Some("cellular"), Some("bluetooth")}

WideEffectiveTypes == {None, Some("slow-2g"), Some("2g"), Some("3g"), Some("4g"), Some("5g")}

WideDownlinks ==
    {None, Some(0), Some(SlowBelow - 1), Some(SlowBelow), Some(ModerateBelow - 1),
     Some(ModerateBelow), Some(GoodBelow - 1), Some(GoodBelow), Some(FiveGDownlink - 1),
     Some(FiveGDownlink)}

WideRtts == {None, Some(0), Some(FiveGRtt - 1), Some(FiveGRtt)}

WideDescriptors ==
    { Descriptor(t, et, d, r, None) :
        t \in WideTypes, et \in WideEffectiveTypes, d \in WideDownlinks, r \in WideRtts }

\* the hosts the classifier is examined in: a page with any of these
\* descriptors, a page without navigator.connection, a bare runtime
ClassifyEnvs ==
    { [shape |-> PageShape, onLine |-> o, descriptor |-> d] :
        o \in BOOLEAN, d \in WideDescriptors }
    \cup EnvsOf(PlainPageShape) \cup EnvsOf(BareShape)

\* --------------------------------------------------------- signal readers

isOnline(e) ==
    IF e.shape.hasNavigator /\ e.shape.hasOnLine THEN e.onLine ELSE TRUE

\* null is None
getNetworkConnection(e) ==
    IF ~e.shape.hasNavigator THEN None
    ELSE IF e.shape.hasConnection THEN Some(e.descriptor) ELSE None

\* -------------------------------------------------------------- classifier

\* faulty variant: an explicit type outside the list falls through to the
\* effectiveType mapping
getNetworkTypeFallingThrough(e) ==
    IF ~isOnline(e) THEN "offline"
    ELSE LET c == getNetworkConnection(e) IN
      IF c = None THEN "unknown"
      ELSE LET connection == c[1] IN
        IF TruthyStr(connection.type) /\ connection.type[1] = "ethernet" THEN "ethernet"
        ELSE IF TruthyStr(connection.type) /\ connection.type[1] = "wifi" THEN "wifi"
        ELSE IF TruthyStr(connection.effectiveType) THEN
          CASE connection.effectiveType[1] \in {"slow-2g", "2g"} -> "2g"
            [] connection.effectiveType[1] = "3g" -> "3g"
            [] connection.effectiveType[1] = "4g" -> "4g"
            [] OTHER -> IF TruthyStr(connection.type) /\ connection.type[1] = "cellular"
                        THEN "cellular" ELSE "unknown"
        ELSE IF TruthyStr(connection.type) /\ connection.type[1] = "cellular"
          THEN "cellular"
        ELSE "unknown"

getNetworkType(e) ==
    IF ~isOnline(e) THEN "offline"
    ELSE LET c == getNetworkConnection(e) IN
      IF c = None THEN "unknown"
      ELSE LET connection == c[1] IN
        IF TruthyStr(connection.type) THEN
          CASE connection.type[1] = "ethernet" -> "ethernet"
            [] connection.type[1] = "wifi" -> "wifi"
            [] connection.type[1] = "cellular" ->
                 IF TruthyStr(connection.effectiveType) THEN
                   CASE connection.effectiveType[1] \in {"slow-2g", "2g"} -> "2g"
                     [] connection.effectiveType[1] = "3g" -> "3g"
                     [] connection.effectiveType[1] = "4g" -> "4g"
                     [] OTHER -> "cellular"
                 ELSE "cellular"
            [] OTHER -> "unknown"
        ELSE IF TruthyStr(connection.effectiveType) THEN
          CASE connection.effectiveType[1] \in {"slow-2g", "2g"} -> "2g"
            [] connection.effectiveType[1] = "3g" -> "3g"
            [] connection.effectiveType[1] = "4g" -> "4g"
            [] OTHER -> "unknown"
        ELSE IF /\ TruthyNum(connection.downlink) /\ TruthyNum(connection.rtt)
                /\ connection.downlink[1] >= FiveGDownlink
                /\ connection.rtt[1] < FiveGRtt
          THEN "5g"
        ELSE "unknown"

\* faulty variant: the band of the descriptor, whatever isOnline() says
getNetworkSpeedIgnoringOffline(e) ==
    LET c == getNetworkConnection(e) IN
      IF c = None \/ ~TruthyNum(c[1].downlink) THEN "unknown"
      ELSE LET downlink == c[1].downlink[1] IN
        IF downlink < SlowBelow THEN "slow"
        ELSE IF downlink < ModerateBelow THEN "moderate"
        ELSE IF downlink < GoodBelow THEN "good"
        ELSE "excellent"

getNetworkSpeed(e) ==
    IF ~isOnline(e) THEN "unknown"
    ELSE LET c == getNetworkConnection(e) IN
      IF c = None \/ ~TruthyNum(c[1].downlink) THEN "unknown"
      ELSE LET downlink == c[1].downlink[1] IN
        IF downlink < SlowBelow THEN "slow"
        ELSE IF downlink < ModerateBelow THEN "moderate"
        ELSE IF downlink < GoodBelow THEN "good"
        ELSE "excellent"

\* true: the device may support 5G
detectPossible5GSupport(e) ==
    LET c == getNetworkConnection(e) IN
    IF c = None THEN FALSE
    ELSE IF TruthyNum(c[1].downlink) /\ TruthyNum(c[1].rtt)
      THEN c[1].downlink[1] >= FiveGDownlink /\ c[1].rtt[1] < FiveGRtt
    ELSE FALSE

getNetworkInfo(e) ==
    LET c == getNetworkConnection(e) IN
    [ online |-> isOnline(e),
      type |-> getNetworkType(e),
      speed |-> getNetworkSpeed(e),
      downlink |-> IF c # None THEN c[1].downlink ELSE None,
      rtt |-> IF c # None THEN c[1].rtt ELSE None,
      effectiveType |->
        IF c # None /\ TruthyStr(c[1].effectiveType) THEN c[1].effectiveType ELSE None,
      saveData |-> IF c # None THEN c[1].saveData ELSE None ]

\* --------------------------------------------------------------- listeners

\* Listener functions a client may register; PlainFns only return or throw,
\* ReentrantFns call back into the monitor from inside their invocation.
PlainFns == {"a", "t"}

ReentrantFns == {"d"}

NestedFns == {"q"}

\* a listener that writes to the object it is handed (info.online = !info.online)
WritingFns == {"m"}

\* listeners that edit the registry from inside their invocation: "u" calls
\* the unsubscribe handle its client got for "a", "n" registers "a"
EditingFns == {"u", "n"}

\* What the body of a listener function does when it is invoked.
Behaviour(fn) ==
    CASE fn = "t" -> "throw"
      [] fn = "d" -> "destroy"
      [] fn = "q" -> "refresh"
      [] fn = "m" -> "write"
      [] fn = "u" -> "unsubscribe"
      [] fn = "n" -> "add"
      [] OTHER -> "return"

PollingIntervals == {0, DefaultPollingIntervalMs}

\* ---------------------------------------------------------------- monitor
\* The operations work on a record s of the monitor's fields, the host-side
\* registrations it owns (windowSubscribed, connectionSubscribed,
\* intervalActive) and what an observer of the running operation sees
\* (calls: the listener invocations so far; thrown: an exception is
\* propagating; destroyed: destroy() has been called; env: the host as a
\* listener body finds it; drifted: the host's signals have moved since the
\* operation began; epoch: the number of snapshots built by getNetworkInfo()
\* in the operation; batch: the epoch whose forEach is running, 0 outside
\* one, and batchInfo the snapshot that forEach was started for; handles:
\* the unsubscribe closures the client holds; nextReg: the number of the
\* next addListener call).

\* faulty variant: the comparison forgets the saveData field
hasNetworkInfoChangedWithoutSaveData(oldInfo, newInfo) ==
    \/ oldInfo.online # newInfo.online
    \/ oldInfo.type # newInfo.type
    \/ oldInfo.speed # newInfo.speed
    \/ oldInfo.downlink # newInfo.downlink
    \/ oldInfo.rtt # newInfo.rtt
    \/ oldInfo.effectiveType # newInfo.effectiveType

_hasNetworkInfoChanged(oldInfo, newInfo) ==
    \/ oldInfo.online # newInfo.online
    \/ oldInfo.type # newInfo.type
    \/ oldInfo.speed # newInfo.speed
    \/ oldInfo.downlink # newInfo.downlink
    \/ oldInfo.rtt # newInfo.rtt
    \/ oldInfo.effectiveType # newInfo.effectiveType
    \/ oldInfo.saveData # newInfo.saveData

_stopPolling(s) ==
    IF s._pollingId # None
    THEN [s EXCEPT !.intervalActive = FALSE, !._pollingId = None]
    ELSE s

_startPolling(s) ==
    IF TruthyNum(s._pollingInterval) /\ s._pollingId = None
    THEN [s EXCEPT !.intervalActive = TRUE, !._pollingId = Some(1)]
    ELSE s

\* createNetworkListener with both callbacks given: subscribes them on window
createNetworkListener(s, e) ==
    IF ~e.shape.hasWindow THEN s ELSE [s EXCEPT !.windowSubscribed = TRUE]

\* the closure _setupListeners stores in _cleanup
cleanup(s, e) ==
    LET s1 == [s EXCEPT !.windowSubscribed = FALSE]
        s2 == IF getNetworkConnection(e) # None /\ s1._connectionChangeHandler
                 /\ ~e.shape.connectionThrows
              THEN [s1 EXCEPT !.connectionSubscribed = FALSE]
              ELSE s1
    IN _stopPolling(s2)

\* faulty variant: no try/catch around connection.addEventListener, whose
\* exception leaves _setupListeners before _cleanup is set
setupListenersUncaught(s, e) ==
    IF ~e.shape.hasWindow THEN s
    ELSE LET s1 == createNetworkListener(s, e) IN
         IF getNetworkConnection(e) # None
         THEN IF e.shape.connectionThrows
              THEN [s1 EXCEPT !._connectionChangeHandler = TRUE, !.thrown = TRUE]
              ELSE [s1 EXCEPT !._connectionChangeHandler = TRUE,
                              !.connectionSubscribed = TRUE, !._cleanup = TRUE]
         ELSE [s1 EXCEPT !._cleanup = TRUE]

_setupListeners(s, e) ==
    IF ~e.shape.hasWindow THEN s
    ELSE LET s1 == createNetworkListener(s, e)
             s2 == IF getNetworkConnection(e) # None
                   THEN [s1 EXCEPT !._connectionChangeHandler = TRUE,
                                   !.connectionSubscribed = ~e.shape.connectionThrows]
                   ELSE s1
         IN [s2 EXCEPT !._cleanup = TRUE]

\* faulty variant: the poll timer is started whatever the interval asked for
constructorAlwaysPolling(e, pollingIntervalMs) ==
    LET s0 == [ _networkInfo |-> getNetworkInfo(e),
                _listeners |-> <<>>,
                _cleanup |-> FALSE,
                _connectionChangeHandler |-> FALSE,
                _pollingInterval |-> None,
                _pollingId |-> None,
                windowSubscribed |-> FALSE,
                connectionSubscribed |-> FALSE,
                intervalActive |-> FALSE,
                destroyed |-> FALSE,
                calls |-> <<>>,
                thrown |-> FALSE,
                env |-> e,
                drifted |-> FALSE,
                epoch |-> 1,
                batch |-> 0,
                batchInfo |-> None,
                handles |-> {},
                nextReg |-> 1,
                revoked |-> {} ]
        s1 == _setupListeners(s0, e)
    IN _startPolling([s1 EXCEPT !._pollingInterval = Some(DefaultPollingIntervalMs)])

constructor(e, pollingIntervalMs) ==
    LET s0 == [ _networkInfo |-> getNetworkInfo(e),
                _listeners |-> <<>>,
                _cleanup |-> FALSE,
                _connectionChangeHandler |-> FALSE,
                _pollingInterval |-> None,
                _pollingId |-> None,
                windowSubscribed |-> FALSE,
                connectionSubscribed |-> FALSE,
                intervalActive |-> FALSE,
                destroyed |-> FALSE,
                calls |-> <<>>,
                thrown |-> FALSE,
                env |-> e,
                drifted |-> FALSE,
                epoch |-> 1,
                batch |-> 0,
                batchInfo |-> None,
                handles |-> {},
                nextReg |-> 1,
                revoked |-> {} ]
        s1 == _setupListeners(s0, e)
    IN IF pollingIntervalMs > 0
       THEN _startPolling([s1 EXCEPT !._pollingInterval = Some(pollingIntervalMs)])
       ELSE s1

destroy(s, e) ==
    LET s1 == IF s._cleanup THEN [cleanup(s, e) EXCEPT !._cleanup = FALSE] ELSE s
    IN [s1 EXCEPT !._listeners = <<>>, !.destroyed = TRUE]

\* The host's signals as a listener body may find them when they have moved
\* since the running operation read them.
Drift(e) == IF e.shape.hasOnLine THEN [e EXCEPT !.onLine = ~@] ELSE e

RECURSIVE refreshNetworkInfo(_, _)
RECURSIVE addListener(_, _, _)

\* the closure addListener returns: filter(l => l !== listener)
unsubscribe(s, h) ==
    [s EXCEPT !._listeners = SelectSeq(@, LAMBDA l : l.fn # h.fn)]

\* listener(this._networkInfo): one call of the function of registration l.
\* A "refresh" body calls monitor.refreshNetworkInfo() on the host as it is
\* by then; the signals move at most once while an operation runs.
\* The argument is this._networkInfo itself, not a copy: what a "write" body
\* assigns to a field of its argument is assigned to the stored object.
\* An "unsubscribe" body calls the handle of the earliest registration of
\* "a" its client holds; an "add" body calls monitor.addListener(a) while
\* the client has registrations left.  revoked: the registrations whose
\* handle has been called since the operation began.
invoke(s, e, l) ==
    LET s1 == [s EXCEPT !.calls = Append(@, [fn |-> l.fn, reg |-> l.reg,
                                             info |-> s._networkInfo,
                                             destroyed |-> s.destroyed,
                                             epoch |-> s.epoch,
                                             batch |-> s.batch,
                                             batchInfo |-> s.batchInfo,
                                             revoked |-> s.revoked])]
    IN CASE Behaviour(l.fn) = "throw" -> [s1 EXCEPT !.thrown = TRUE]
         [] Behaviour(l.fn) = "destroy" -> destroy(s1, e)
         [] Behaviour(l.fn) = "refresh" ->
              LET s2 == IF s1.drifted THEN s1
                        ELSE [s1 EXCEPT !.drifted = TRUE, !.env = Drift(s1.env)]
              IN refreshNetworkInfo(s2, s2.env)
         [] Behaviour(l.fn) = "write" ->
              [s1 EXCEPT !._networkInfo.online = ~@]
         [] Behaviour(l.fn) = "unsubscribe" ->
              LET held == {h \in s1.handles : h.fn = "a"} IN
              IF held = {} THEN s1
              ELSE LET h == CHOOSE h \in held : \A g \in held : h.reg <= g.reg
                   IN [unsubscribe(s1, h) EXCEPT !.revoked = @ \cup {h.reg}]
         [] Behaviour(l.fn) = "add" ->
              IF s1.nextReg > MaxRegs THEN s1
              ELSE LET n == [fn |-> "a", reg |-> s1.nextReg]
                       r == addListener([s1 EXCEPT !.nextReg = @ + 1], e, n)
                   IN [r EXCEPT !.handles = @ \cup {n}]
         [] OTHER -> s1

\* faulty variant: no try/catch around the call, the first throw ends the loop
RECURSIVE forEachListenerUncaught(_, _, _, _)
forEachListenerUncaught(s, e, arr, i) ==
    IF i > Len(arr) \/ s.thrown THEN s
    ELSE forEachListenerUncaught(invoke(s, e, arr[i]), e, arr, i + 1)

\* One iteration of the forEach of _notifyListeners and the ones after it:
\* forEach walks the array object it was started on (arr), whatever
\* this._listeners is replaced by meanwhile; the try/catch ends the throw.
\* (v is the record the iteration starts on, evaluated once.)
RECURSIVE forEachListener(_, _, _, _)
forEachListener(s, e, arr, i) ==
    IF i > Len(arr) THEN s
    ELSE CHOOSE r \in { forEachListener([invoke(v, e, arr[i]) EXCEPT !.thrown = FALSE],
                                        e, arr, i + 1) : v \in {s} } : TRUE

\* the forEach over this._listeners, for the snapshot stored at its start
_notifyListeners(s, e) ==
    LET r == forEachListener([s EXCEPT !.batch = s.epoch,
                                       !.batchInfo = Some(s._networkInfo)],
                             e, s._listeners, 1)
    IN [r EXCEPT !.batch = s.batch, !.batchInfo = s.batchInfo]

\* faulty variant: notifies whether or not the snapshot changed
refreshNetworkInfoAlwaysNotifying(s, e) ==
    _notifyListeners([s EXCEPT !._networkInfo = getNetworkInfo(e),
                               !.epoch = @ + 1], e)

\* returns this._networkInfo of the resulting record
refreshNetworkInfo(s, e) ==
    LET previousInfo == s._networkInfo
        s1 == [s EXCEPT !._networkInfo = getNetworkInfo(e), !.epoch = @ + 1]
    IN IF _hasNetworkInfoChanged(previousInfo, s1._networkInfo)
       THEN _notifyListeners(s1, e)
       ELSE s1

\* faulty variant: the online callback looks at the online flag alone
onlineCallbackFlagOnly(s, e) ==
    LET newInfo == getNetworkInfo(e) IN
    IF s._networkInfo.online # newInfo.online
    THEN _notifyListeners([s EXCEPT !._networkInfo = newInfo, !.epoch = @ + 1], e)
    ELSE s

\* the callbacks _setupListeners hands to createNetworkListener
onlineCallback(s, e) ==
    LET newInfo == getNetworkInfo(e) IN
    IF _hasNetworkInfoChanged(s._networkInfo, newInfo)
    THEN _notifyListeners([s EXCEPT !._networkInfo = newInfo, !.epoch = @ + 1], e)
    ELSE s

offlineCallback(s, e) ==
    LET newInfo == getNetworkInfo(e) IN
    IF _hasNetworkInfoChanged(s._networkInfo, newInfo)
    THEN _notifyListeners([s EXCEPT !._networkInfo = newInfo, !.epoch = @ + 1], e)
    ELSE s

\* the closure stored in this._connectionChangeHandler
connectionChangeHandler(s, e) ==
    LET newInfo == getNetworkInfo(e) IN
    IF _hasNetworkInfoChanged(s._networkInfo, newInfo)
    THEN _notifyListeners([s EXCEPT !._networkInfo = newInfo, !.epoch = @ + 1], e)
    ELSE s

\* faulty variant: the timer's callback does nothing
pollingCallbackIdle(s, e) == s

\* the callback _startPolling hands to setInterval
pollingCallback(s, e) == refreshNetworkInfo(s, e)

\* faulty variant: registers without the immediate call
addListenerWithoutCall(s, e, l) == [s EXCEPT !._listeners = Append(@, l)]

\* push, then the immediate call; the unsubscribe closure is returned only
\* when the call did not throw (thrown is still set in the result otherwise)
addListener(s, e, l) ==
    invoke([s EXCEPT !._listeners = Append(@, l)], e, l)

\* ----------------------------------------------------------------- probes
\* A promise is a record with promise ("none": no call yet, "pending",
\* "resolved", "rejected") and outcome (None while pending; the value or the
\* error).  resolve and reject act on a pending promise only.

resolve(p, value) ==
    IF p.promise = "pending"
    THEN [p EXCEPT !.promise = "resolved", !.outcome = Some(value)]
    ELSE p

reject(p, error) ==
    IF p.promise = "pending"
    THEN [p EXCEPT !.promise = "rejected", !.outcome = Some(error)]
    ELSE p

\* A quotient of two numbers, kept exact.
Quotient(n, d) == [num |-> n, den |-> d]

\* The download probe: timeout is the timer of setTimeout ("armed", "fired",
\* "cleared"), request the fetch ("inflight", "blob": response received and
\* the body being read, "done", "failed"), events what has happened to the
\* call so far, in order.
IdleDownload ==
    [ promise |-> "none", outcome |-> None, timeout |-> "none", request |-> "none",
      sampleSize |-> 0, timeoutMs |-> 0, events |-> <<>> ]

clearTimeout(d) == IF d.timeout = "armed" THEN [d EXCEPT !.timeout = "cleared"] ELSE d

\* the promise executor: setTimeout, then fetch(url)
measureDownloadSpeed(sampleSize, timeoutMs) ==
    [ promise |-> "pending", outcome |-> None, timeout |-> "armed", request |-> "inflight",
      sampleSize |-> sampleSize, timeoutMs |-> timeoutMs, events |-> <<>> ]

\* the callback handed to setTimeout
downloadTimeoutCallback(d) ==
    reject([d EXCEPT !.timeout = "fired", !.events = Append(@, "timeout")],
           "Network speed test timed out")

\* .then(response => response.blob())
downloadResponse(d) == [d EXCEPT !.request = "blob"]

\* (fileSizeMB * 8) / durationSeconds, in Mbps: sampleSize * 8 bits over
\* 1000000 / 1000 times the duration in ms
speedMbps(sampleSize, durationMs) ==
    Quotient(sampleSize * BitsPerByte, (BytesPerMB \div MsPerSecond) * durationMs)

\* faulty variant: the timer is left armed
downloadBlobKeepingTimer(d, durationMs) ==
    resolve([d EXCEPT !.request = "done", !.events = Append(@, "body")],
            speedMbps(d.sampleSize, durationMs))

\* .then(blob => { clearTimeout(timeoutId); ...; resolve(speedMbps) })
downloadBlob(d, durationMs) ==
    resolve(clearTimeout([d EXCEPT !.request = "done", !.events = Append(@, "body")]),
            speedMbps(d.sampleSize, durationMs))

\* .catch(error => { clearTimeout(timeoutId); reject(error) })
downloadCatch(d) ==
    reject(clearTimeout([d EXCEPT !.request = "failed", !.events = Append(@, "failure")]),
           "transport error")

\* results.sort((a, b) => a - b)
RECURSIVE insert(_, _)
insert(x, sorted) ==
    IF sorted = <<>> THEN << x >>
    ELSE IF x <= Head(sorted) THEN << x >> \o sorted
    ELSE << Head(sorted) >> \o insert(x, Tail(sorted))

RECURSIVE sort(_)
sort(results) == IF results = <<>> THEN <<>> ELSE insert(Head(results), sort(Tail(results)))

shift(results) == Tail(results)

pop(results) == SubSeq(results, 1, Len(results) - 1)

\* results.reduce((sum, latency) => sum + latency, 0)
RECURSIVE reduce(_)
reduce(results) == IF results = <<>> THEN 0 ELSE Head(results) + reduce(Tail(results))

\* faulty variant: the mean of all samples
averageUntrimmed(results) == Quotient(reduce(results), Len(results))

\* lines 276-283: the value returned for a non-empty results array
average(results) ==
    LET kept == IF Len(results) > 2 THEN pop(shift(sort(results))) ELSE results
    IN Quotient(reduce(kept), Len(kept))

\* The latency probe: i is the loop counter, phase where the loop is
\* suspended ("fetch": awaiting the HEAD request, "pacing": awaiting the
\* setTimeout between attempts), events what has happened so far, in order.
IdleLatency ==
    [ promise |-> "none", outcome |-> None, samples |-> 0, i |-> 0, results |-> <<>>,
      phase |-> "none", events |-> <<>> ]

\* lines 271-283, after the loop
latencyReturn(l) ==
    LET l1 == [l EXCEPT !.phase = "none"] IN
    IF Len(l.results) = 0
    THEN reject(l1, "Failed to measure network latency")
    ELSE resolve(l1, average(l.results))

\* the loop from its head (i < samples) to the next await
latencyLoop(l) ==
    IF l.i < l.samples THEN [l EXCEPT !.phase = "fetch"] ELSE latencyReturn(l)

measureNetworkLatency(samples) ==
    latencyLoop([ promise |-> "pending", outcome |-> None, samples |-> samples, i |-> 0,
                  results |-> <<>>, phase |-> "none", events |-> <<>> ])

\* faulty variant: the pacing delay follows the last attempt too
latencyAfterAttemptAlwaysPacing(l) == [l EXCEPT !.phase = "pacing"]

\* lines 266-268 and i++: after the try/catch of attempt i
latencyAfterAttempt(l) ==
    IF l.i < l.samples - 1
    THEN [l EXCEPT !.phase = "pacing"]
    ELSE latencyLoop([l EXCEPT !.i = @ + 1])

\* the await of fetch resumes: results.push(latency)
latencyFetched(l, latencyMs) ==
    latencyAfterAttempt([l EXCEPT !.results = Append(@, latencyMs),
                                  !.events = Append(@, "ok")])

\* the await of fetch throws: the catch logs
latencyCaught(l) == latencyAfterAttempt([l EXCEPT !.events = Append(@, "failed")])

\* the pacing timer fires
latencyPaced(l) == latencyLoop([l EXCEPT !.i = @ + 1, !.events = Append(@, "paced")])

\* The promise of measureNetworkPerformance().
IdlePerformance == [promise |-> "none", outcome |-> None]

\* await Promise.all([download, latency]) with the catch that rethrows:
\* the first rejection rejects, both values resolve
promiseAll(p, d, l) ==
    IF d.promise = "rejected" THEN reject(p, d.outcome[1])
    ELSE IF l.promise = "rejected" THEN reject(p, l.outcome[1])
    ELSE IF d.promise = "resolved" /\ l.promise = "resolved"
      THEN resolve(p, [downloadSpeed |-> d.outcome[1], latency |-> l.outcome[1]])
    ELSE p

\* faulty variant: the measurement starts with a refresh of the snapshot
measureNetworkPerformanceRefreshing(s) == refreshNetworkInfo(s, s.env)

\* the method touches no field of the monitor
measureNetworkPerformance(s) == s

\* ----------------------------------------------------------- event emitter
\* class EventEmitter.  A registered listener is [fn, reg, once]: fn the
\* client's function, reg the number of the on()/once() call, once TRUE for
\* the wrapper closure once() builds.  events maps an event name to None
\* (no such key) or Some(array).

EventNames == {"change"}

EmitterFns == PlainFns

NewEmitter == [events |-> [ev \in EventNames |-> None], calls |-> <<>>]

\* function identity: every once() call builds a closure of its own, a
\* client function passed to on() twice is the same function
SameFunction(x, l) ==
    IF l.once THEN x.once /\ x.reg = l.reg ELSE ~x.once /\ x.fn = l.fn

\* Array.prototype.indexOf, 1-based; 0: not found
indexOf(arr, l) ==
    IF \E k \in DOMAIN arr : SameFunction(arr[k], l)
    THEN CHOOSE k \in DOMAIN arr :
           /\ SameFunction(arr[k], l)
           /\ \A j \in 1 .. (k - 1) : ~SameFunction(arr[j], l)
    ELSE 0

\* arr.splice(index, 1), in place
splice(arr, index) == SubSeq(arr, 1, index - 1) \o SubSeq(arr, index + 1, Len(arr))

on(em, ev, l) ==
    [em EXCEPT !.events[ev] = Some(Append(IF @ = None THEN <<>> ELSE @[1], l))]

once(em, ev, l) == on(em, ev, [l EXCEPT !.once = TRUE])

\* off(event, listener)
off(em, ev, l) ==
    IF em.events[ev] = None THEN em
    ELSE LET arr == em.events[ev][1]
             index == indexOf(arr, l)
             arr1 == IF index > 0 THEN splice(arr, index) ELSE arr
         IN [em EXCEPT !.events[ev] = IF Len(arr1) = 0 THEN None ELSE Some(arr1)]

\* off(event)
offEvent(em, ev) == [em EXCEPT !.events[ev] = None]

\* listener(...args) for the element l of the array: the wrapper of once()
\* calls off(event, itself) and then the client's function
call(em, ev, l) ==
    LET em1 == IF l.once THEN off(em, ev, l) ELSE em
    IN [em1 EXCEPT !.calls = Append(@, [fn |-> l.fn, reg |-> l.reg, once |-> l.once,
                                        thrown |-> Behaviour(l.fn) = "throw"])]

\* The array emit iterates is the object stored under the event; the only
\* writes to it while emit runs are the splices of once-wrappers, and when
\* the last element goes and the key is deleted the object is left empty.
liveArray(em, ev) == IF em.events[ev] = None THEN <<>> ELSE em.events[ev][1]

\* Array.prototype.forEach from index k on: len is the length read when it
\* began, an index no longer in the array is skipped, the element is read
\* from the array as it is at that step; the try/catch ends a throw.
RECURSIVE forEach(_, _, _, _)
forEach(em, ev, k, len) ==
    IF k > len THEN em
    ELSE IF k > Len(liveArray(em, ev)) THEN forEach(em, ev, k + 1, len)
    ELSE forEach(call(em, ev, liveArray(em, ev)[k]), ev, k + 1, len)

\* the value emit returns
emitReturns(em, ev) == em.events[ev] # None

emit(em, ev) ==
    IF em.events[ev] = None THEN em
    ELSE forEach(em, ev, 1, Len(em.events[ev][1]))

listenerCount(em, ev) == IF em.events[ev] # None THEN Len(em.events[ev][1]) ELSE 0

removeAllListeners(em) == [em EXCEPT !.events = [ev \in EventNames |-> None]]

\* ------------------------------------------------------------ state machine

VARIABLES
    env,                       \* the host: its shape, navigator.onLine, navigator.connection
    _networkInfo,              \* the stored snapshot
    _listeners,                \* the registry, in registration order
    _cleanup,                  \* TRUE: the cleanup closure is set; FALSE: null
    _connectionChangeHandler,  \* TRUE: the handler closure is set; FALSE: null
    _pollingInterval,          \* None: null
    _pollingId,                \* None: null
    windowSubscribed,          \* the online/offline callbacks are subscribed on window
    connectionSubscribed,      \* the change handler is subscribed on the connection
    intervalActive,            \* the host holds the monitor's setInterval timer
    fns,                       \* the listener functions the client registers
    handles,                   \* the unsubscribe closures addListener has returned
    nextReg,                   \* number of the next addListener call
    destroyed,                 \* destroy() has been called
    calls,                     \* listener invocations of the last operation, in order
    last,                      \* the last operation, as its caller saw it
    download,                  \* the measureDownloadSpeed call
    latency,                   \* the measureNetworkLatency call
    performance,               \* the measureNetworkPerformance call
    emitter,                   \* an EventEmitter, with what its last operation did
    delivered                  \* per registration of the registry the snapshot it was
                               \* last called with (None: never called, or not in the
                               \* registry); NotWatched where nobody looks

vars == << env, _networkInfo, _listeners, _cleanup, _connectionChangeHandler,
           _pollingInterval, _pollingId, windowSubscribed, connectionSubscribed,
           intervalActive, fns, handles, nextReg, destroyed, calls, last,
           download, latency, performance, emitter, delivered >>

\* everything but the three calls of the probes
monitorSide ==
    << env, _networkInfo, _listeners, _cleanup, _connectionChangeHandler,
       _pollingInterval, _pollingId, windowSubscribed, connectionSubscribed,
       intervalActive, fns, handles, nextReg, destroyed, calls, last, delivered >>

NotWatched == <<>>

Unseen == [reg \in 1 .. MaxRegs |-> None]

\* delivered after the invocations cs[i], cs[i + 1], ...
RECURSIVE Deliver(_, _, _)
Deliver(d, cs, i) ==
    IF i > Len(cs) THEN d
    ELSE Deliver([d EXCEPT ![cs[i].reg] = Some(cs[i].info)], cs, i + 1)

\* d for the registrations of the registry ls
Registered(d, ls) ==
    [reg \in DOMAIN d |-> IF \E k \in DOMAIN ls : ls[k].reg = reg THEN d[reg] ELSE None]

\* the record the operations work on, at the start of an operation
Cur ==
    [ _networkInfo |-> _networkInfo,
      _listeners |-> _listeners,
      _cleanup |-> _cleanup,
      _connectionChangeHandler |-> _connectionChangeHandler,
      _pollingInterval |-> _pollingInterval,
      _pollingId |-> _pollingId,
      windowSubscribed |-> windowSubscribed,
      connectionSubscribed |-> connectionSubscribed,
      intervalActive |-> intervalActive,
      destroyed |-> destroyed,
      calls |-> <<>>,
      thrown |-> FALSE,
      env |-> env,
      drifted |-> FALSE,
      epoch |-> 0,
      batch |-> 0,
      batchInfo |-> None,
      handles |-> handles,
      nextReg |-> nextReg,
      revoked |-> {} ]

\* what the caller of operation op saw: raised is an exception leaving the
\* operation, returned the snapshot it returned (None: nothing or no return)
Seen(op, l, r, ret) ==
    [ op |-> op, fn |-> l.fn, reg |-> l.reg, raised |-> r.thrown, returned |-> ret,
      prevInfo |-> _networkInfo, prevListeners |-> _listeners,
      prevDestroyed |-> destroyed, prevDelivered |-> delivered ]

NoListener == [fn |-> "", reg |-> 0]

\* the monitor and its host after an operation that ended in record r
Store(r, seen) ==
    /\ _networkInfo' = r._networkInfo
    /\ _listeners' = r._listeners
    /\ _cleanup' = r._cleanup
    /\ _connectionChangeHandler' = r._connectionChangeHandler
    /\ _pollingInterval' = r._pollingInterval
    /\ _pollingId' = r._pollingId
    /\ windowSubscribed' = r.windowSubscribed
    /\ connectionSubscribed' = r.connectionSubscribed
    /\ intervalActive' = r.intervalActive
    /\ destroyed' = r.destroyed
    /\ calls' = r.calls
    /\ env' = r.env
    /\ handles' = r.handles
    /\ nextReg' = r.nextReg
    /\ delivered' = IF delivered = NotWatched THEN delivered
                    ELSE Registered(Deliver(delivered, r.calls, 1), r._listeners)
    /\ last' = seen
    /\ emitter' = emitter

\* the state after an operation of the monitor that ended in record r
Commit(r, seen) ==
    /\ Store(r, seen)
    /\ UNCHANGED << download, latency, performance >>

\* the state after new NetworkMonitor(p) in one of the hosts envs, with
\* fnSet the listener functions of the client and d0 what is known of the
\* snapshots delivered
InitMonitor(envs, polls, fnSet, d0) ==
    \E e \in envs : \E p \in polls :
      LET r == constructor(e, p) IN
        /\ env = e
        /\ _networkInfo = r._networkInfo
        /\ _listeners = r._listeners
        /\ _cleanup = r._cleanup
        /\ _connectionChangeHandler = r._connectionChangeHandler
        /\ _pollingInterval = r._pollingInterval
        /\ _pollingId = r._pollingId
        /\ windowSubscribed = r.windowSubscribed
        /\ connectionSubscribed = r.connectionSubscribed
        /\ intervalActive = r.intervalActive
        /\ fns = fnSet
        /\ handles = {}
        /\ nextReg = 1
        /\ destroyed = FALSE
        /\ calls = <<>>
        /\ last = [ op |-> "new", fn |-> "", reg |-> 0, raised |-> FALSE,
                    returned |-> None, prevInfo |-> r._networkInfo,
                    prevListeners |-> <<>>, prevDestroyed |-> FALSE,
                    prevDelivered |-> d0 ]
        /\ download = IdleDownload
        /\ latency = IdleLatency
        /\ performance = IdlePerformance
        /\ delivered = d0
        /\ emitter = [ events |-> NewEmitter.events, nextReg |-> 1, calls |-> <<>>,
                       op |-> "new", event |-> "", returned |-> None,
                       prevEvents |-> NewEmitter.events ]

InitIn(envs, polls, fnSet) == InitMonitor(envs, polls, fnSet, NotWatched)

\* the same, with the snapshots delivered to each registration followed
InitWatched(envs, polls, fnSet) == InitMonitor(envs, polls, fnSet, Unseen)

InitWith(fnSet) ==
    InitIn(UNION {EnvsOf(sh) : sh \in EnvShapes}, PollingIntervals, fnSet)

Init == InitWith(PlainFns)

\* the host's signals change; no event is delivered by this step
EnvChange ==
    /\ \E e \in EnvsOf(env.shape) :
         /\ e # env
         /\ Commit([Cur EXCEPT !.env = e], Seen("env", NoListener, Cur, None))
    /\ UNCHANGED fns

AddListener ==
    \E fn \in fns :
      LET l == [fn |-> fn, reg |-> nextReg]
          r0 == addListener([Cur EXCEPT !.nextReg = @ + 1], env, l)
          r == IF r0.thrown THEN r0 ELSE [r0 EXCEPT !.handles = @ \cup {l}]
      IN /\ nextReg <= MaxRegs
         /\ Commit(r, Seen("addListener", l, r, None))
         /\ UNCHANGED fns

Unsubscribe ==
    \E h \in handles :
      LET r == unsubscribe(Cur, h)
      IN /\ Commit(r, Seen("unsubscribe", h, r, None))
         /\ UNCHANGED fns

Refresh ==
    LET r == refreshNetworkInfo(Cur, env)
    IN /\ Commit(r, Seen("refresh", NoListener, r, Some(r._networkInfo)))
       /\ UNCHANGED fns

OnlineEvent ==
    /\ windowSubscribed
    /\ LET r == onlineCallback(Cur, env)
       IN Commit(r, Seen("online", NoListener, r, None))
    /\ UNCHANGED fns

OfflineEvent ==
    /\ windowSubscribed
    /\ LET r == offlineCallback(Cur, env)
       IN Commit(r, Seen("offline", NoListener, r, None))
    /\ UNCHANGED fns

ConnectionChangeEvent ==
    /\ connectionSubscribed
    /\ LET r == connectionChangeHandler(Cur, env)
       IN Commit(r, Seen("change", NoListener, r, None))
    /\ UNCHANGED fns

PollTick ==
    /\ intervalActive
    /\ \E r \in {pollingCallback(Cur, env)} :
         Commit(r, Seen("poll", NoListener, r, None))
    /\ UNCHANGED fns

Destroy ==
    LET r == destroy(Cur, env)
    IN /\ Commit(r, Seen("destroy", NoListener, r, None))
       /\ UNCHANGED fns

\* navigator.onLine flips; no event is delivered by this step
ConnectivityChange ==
    /\ env.shape.hasOnLine
    /\ Commit([Cur EXCEPT !.env.onLine = ~@], Seen("env", NoListener, Cur, None))
    /\ UNCHANGED fns

Next ==
    \/ EnvChange
    \/ AddListener
    \/ Unsubscribe
    \/ Refresh
    \/ OnlineEvent
    \/ OfflineEvent
    \/ ConnectionChangeEvent
    \/ PollTick
    \/ Destroy

Spec == Init /\ [][Next]_vars

\* the same machine with clients whose listeners may also call destroy()
InitReentrant == InitWith(PlainFns \cup ReentrantFns)

SpecReentrant == InitReentrant /\ [][Next]_vars

\* the same machine in a page, with clients whose listeners may also call
\* refreshNetworkInfo()
InitNested == InitIn(EnvsOf(PageShape), PollingIntervals, {"a"} \cup NestedFns)

SpecNested == InitNested /\ [][Next]_vars

\* the same machine in a page, with clients whose listeners may also write
\* to the snapshot object they are called with
InitWriting == InitIn(EnvsOf(PageShape), PollingIntervals, {"a"} \cup WritingFns)

SpecWriting == InitWriting /\ [][Next]_vars

\* the same machine in a page, with clients whose listeners may also add
\* and remove registrations
InitEditing == InitIn(EnvsOf(PageShape), PollingIntervals, {"a"} \cup EditingFns)

SpecEditing == InitEditing /\ [][Next]_vars

\* the same, with the snapshots delivered to each registration followed
InitNestedWatched == InitWatched(EnvsOf(PageShape), PollingIntervals, {"a"} \cup NestedFns)

SpecNestedWatched == InitNestedWatched /\ [][Next]_vars

\* A monitor with a poll timer in every kind of host, whose timer keeps
\* firing while the host holds it; no environment event is delivered.
InitPolling ==
    InitWatched(UNION {EnvsOf(sh) : sh \in EnvShapes}, {DefaultPollingIntervalMs}, {"a"})

NextPolling ==
    \/ EnvChange
    \/ AddListener
    \/ Unsubscribe
    \/ PollTick
    \/ Destroy

SpecPolling == InitPolling /\ [][NextPolling]_vars /\ WF_vars(PollTick)

\* ------------------------------------------------------- probe state machine
\* The model follows one call of each probe at a time: a new call starts
\* when nothing of the previous one is left with the host.

\* the inputs of the probes and what the host answers (sizes in bytes, times in ms)
SampleSizes == {DefaultSampleSize \div 2, DefaultSampleSize, 2 * DefaultSampleSize}

TimeoutsMs == {MsPerSecond, DefaultTimeoutMs \div 2, DefaultTimeoutMs}

DurationsMs == {80, 800, 4000, 8000, 12000}

SampleCounts == 0 .. DefaultSamples

LatenciesMs == {48, 50, 51, 52, 500}

DownloadDrained ==
    /\ download.promise # "pending"
    /\ download.timeout # "armed"
    /\ download.request \notin {"inflight", "blob"}

\* a client calls measureDownloadSpeed(sampleSize, timeoutMs)
StartDownload(sizes, timeouts) ==
    /\ DownloadDrained
    /\ performance.promise # "pending"
    /\ \E sampleSize \in sizes : \E timeoutMs \in timeouts :
         download' = measureDownloadSpeed(sampleSize, timeoutMs)
    /\ UNCHANGED << monitorSide, emitter, latency, performance >>

\* the response of the fetch arrives
DownloadResponse ==
    /\ download.request = "inflight"
    /\ download' = downloadResponse(download)
    /\ UNCHANGED << monitorSide, emitter, latency, performance >>

\* the body has been read, durationMs after the start; a timer that has
\* fired was due before
DownloadBody(durations) ==
    /\ download.request = "blob"
    /\ \E durationMs \in durations :
         /\ download.timeout = "fired" => durationMs >= download.timeoutMs
         /\ download' = downloadBlob(download, durationMs)
    /\ performance' = promiseAll(performance, download', latency)
    /\ UNCHANGED << monitorSide, emitter, latency >>

\* the request or the reading of the body fails
DownloadFails ==
    /\ download.request \in {"inflight", "blob"}
    /\ download' = downloadCatch(download)
    /\ performance' = promiseAll(performance, download', latency)
    /\ UNCHANGED << monitorSide, emitter, latency >>

\* timeoutMs have elapsed: the host runs the timer's callback
DownloadTimeout ==
    /\ download.timeout = "armed"
    /\ download' = downloadTimeoutCallback(download)
    /\ performance' = promiseAll(performance, download', latency)
    /\ UNCHANGED << monitorSide, emitter, latency >>

\* a client calls measureNetworkLatency(url, samples)
StartLatency(counts) ==
    /\ latency.promise # "pending"
    /\ performance.promise # "pending"
    /\ \E samples \in counts : latency' = measureNetworkLatency(samples)
    /\ UNCHANGED << monitorSide, emitter, download, performance >>

\* the HEAD request of the running attempt completes after latencyMs
LatencyFetched(values) ==
    /\ latency.phase = "fetch"
    /\ \E latencyMs \in values : latency' = latencyFetched(latency, latencyMs)
    /\ performance' = promiseAll(performance, download, latency')
    /\ UNCHANGED << monitorSide, emitter, download >>

\* the HEAD request of the running attempt fails
LatencyFails ==
    /\ latency.phase = "fetch"
    /\ latency' = latencyCaught(latency)
    /\ performance' = promiseAll(performance, download, latency')
    /\ UNCHANGED << monitorSide, emitter, download >>

\* the pacing delay has elapsed: the host runs the timer's callback
PacingElapses ==
    /\ latency.phase = "pacing"
    /\ latency' = latencyPaced(latency)
    /\ performance' = promiseAll(performance, download, latency')
    /\ UNCHANGED << monitorSide, emitter, download >>

\* a client calls monitor.measureNetworkPerformance()
StartPerformance ==
    /\ DownloadDrained
    /\ latency.promise # "pending"
    /\ performance.promise # "pending"
    /\ LET r == measureNetworkPerformance(Cur)
       IN Store(r, Seen("measure", NoListener, r, None))
    /\ download' = measureDownloadSpeed(DefaultSampleSize, DefaultTimeoutMs)
    /\ latency' = measureNetworkLatency(DefaultSamples)
    /\ performance' = [promise |-> "pending", outcome |-> None]
    /\ UNCHANGED fns

\* the host of the probes: a page whose monitor is left alone
ProbeEnvs == {[shape |-> PageShape, onLine |-> TRUE, descriptor |-> WifiDescriptor]}

InitProbes == InitIn(ProbeEnvs, {0}, {"a"})

\* calls of measureDownloadSpeed, one after another
NextDownload ==
    \/ StartDownload(SampleSizes, TimeoutsMs)
    \/ DownloadResponse
    \/ DownloadBody(DurationsMs)
    \/ DownloadFails
    \/ DownloadTimeout

SpecDownload == InitProbes /\ [][NextDownload]_vars

\* calls of measureNetworkLatency, one after another
NextLatency ==
    \/ StartLatency(SampleCounts)
    \/ LatencyFetched(LatenciesMs)
    \/ LatencyFails
    \/ PacingElapses

SpecLatency == InitProbes /\ [][NextLatency]_vars

\* a monitor with a poll timer in a page without navigator.connection, its
\* triggers and clients, and calls of measureNetworkPerformance()
InitPerformance == InitIn(EnvsOf(PlainPageShape), {DefaultPollingIntervalMs}, {"a"})

NextPerformance ==
    \/ StartPerformance
    \/ DownloadResponse
    \/ DownloadBody({MsPerSecond})
    \/ DownloadFails
    \/ DownloadTimeout
    \/ LatencyFetched({PacingDelayMs})
    \/ LatencyFails
    \/ PacingElapses
    \/ EnvChange
    \/ OnlineEvent
    \/ PollTick
    \/ AddListener
    \/ Destroy

SpecPerformance == InitPerformance /\ [][NextPerformance]_vars

\* The three calls with default arguments, where the host's timers always
\* fire in the end and its requests may stay unanswered.
NextProbes ==
    \/ StartDownload({DefaultSampleSize}, {DefaultTimeoutMs})
    \/ DownloadResponse
    \/ DownloadBody({MsPerSecond})
    \/ DownloadFails
    \/ DownloadTimeout
    \/ StartLatency({DefaultSamples})
    \/ LatencyFetched({PacingDelayMs})
    \/ LatencyFails
    \/ PacingElapses
    \/ StartPerformance

SpecProbesFair ==
    /\ InitProbes
    /\ [][NextProbes]_vars
    /\ WF_vars(DownloadTimeout)
    /\ WF_vars(PacingElapses)

\* The monitor where capabilities are missing: a bare runtime, and a page
\* whose connection object cannot be subscribed to; listeners only return.
InitDegraded ==
    InitIn(EnvsOf(BareShape) \cup EnvsOf(LegacyPageShape), PollingIntervals, {"a"})

NextDegraded ==
    \/ EnvChange
    \/ AddListener
    \/ Unsubscribe
    \/ Refresh
    \/ OnlineEvent
    \/ OfflineEvent
    \/ PollTick
    \/ Destroy

SpecDegraded == InitDegraded /\ [][NextDegraded]_vars

\* The classifier on every descriptor: a monitor without polling in each host
\* of ClassifyEnvs, whose connectivity comes and goes.
InitClassify == InitIn(ClassifyEnvs, {0}, {"a"})

NextClassify ==
    \/ ConnectivityChange
    \/ Refresh
    \/ OnlineEvent
    \/ OfflineEvent
    \/ AddListener

SpecClassify == InitClassify /\ [][NextClassify]_vars

\* ----------------------------------------------------- emitter state machine
\* the emitter after an operation op on event ev that ended in em
Emitted(em, op, ev, ret, reg) ==
    [ events |-> em.events, nextReg |-> reg, calls |-> em.calls,
      op |-> op, event |-> ev, returned |-> ret, prevEvents |-> emitter.events ]

\* the monitor and the probes, which no operation of the emitter touches
emitterFrame == << monitorSide, download, latency, performance >>

CurEmitter == [events |-> emitter.events, calls |-> <<>>]

On ==
    \E ev \in EventNames : \E fn \in EmitterFns :
      /\ emitter.nextReg <= MaxRegs
      /\ emitter' = Emitted(on(CurEmitter, ev, [fn |-> fn, reg |-> emitter.nextReg, once |-> FALSE]),
                 "on", ev, None, emitter.nextReg + 1)
      /\ UNCHANGED emitterFrame

Once ==
    \E ev \in EventNames : \E fn \in EmitterFns :
      /\ emitter.nextReg <= MaxRegs
      /\ emitter' = Emitted(once(CurEmitter, ev, [fn |-> fn, reg |-> emitter.nextReg, once |-> FALSE]),
                 "once", ev, None, emitter.nextReg + 1)
      /\ UNCHANGED emitterFrame

Off ==
    \E ev \in EventNames : \E fn \in EmitterFns :
      /\ emitter' = Emitted(off(CurEmitter, ev, [fn |-> fn, reg |-> 0, once |-> FALSE]),
              "off", ev, None, emitter.nextReg)
      /\ UNCHANGED emitterFrame

OffEvent ==
    \E ev \in EventNames :
      /\ emitter' = Emitted(offEvent(CurEmitter, ev), "offEvent", ev, None, emitter.nextReg)
      /\ UNCHANGED emitterFrame

Emit ==
    \E ev \in EventNames :
      /\ emitter' = Emitted(emit(CurEmitter, ev), "emit", ev, Some(emitReturns(CurEmitter, ev)),
              emitter.nextReg)
      /\ UNCHANGED emitterFrame

ListenerCount ==
    \E ev \in EventNames :
      /\ emitter' = Emitted(CurEmitter, "listenerCount", ev, Some(listenerCount(CurEmitter, ev)),
              emitter.nextReg)
      /\ UNCHANGED emitterFrame

RemoveAllListeners ==
    /\ emitter' = Emitted(removeAllListeners(CurEmitter), "removeAllListeners", "", None,
            emitter.nextReg)
    /\ UNCHANGED emitterFrame

\* an emitter of its own, next to a monitor that is left alone
InitEmitter == InitIn(ProbeEnvs, {0}, {"a"})

NextEmitter ==
    \/ On
    \/ Once
    \/ Off
    \/ OffEvent
    \/ Emit
    \/ ListenerCount
    \/ RemoveAllListeners

SpecEmitter == InitEmitter /\ [][NextEmitter]_vars

\* ----------------------------------------------------------------- claims

SnapshotFields ==
    {"online", "type", "speed", "downlink", "rtt", "effectiveType", "saveData"}

FieldwiseEqual(a, b) == \A f \in SnapshotFields : a[f] = b[f]

\* the operations that recompute the snapshot
TriggerOps == {"online", "offline", "change", "poll"}

BatchOps == TriggerOps \cup {"refresh"}

\* the invocations one notification batch over registry ls with snapshot info makes
Batch(ls, info) == [i \in 1..Len(ls) |-> [fn |-> ls[i].fn, reg |-> ls[i].reg, info |-> info]]

\* the invocations of the last operation: who was called, with what
Called == [i \in 1..Len(calls) |-> [fn |-> calls[i].fn, reg |-> calls[i].reg, info |-> calls[i].info]]

MonitorVars ==
    << _networkInfo, _listeners, _cleanup, _connectionChangeHandler, _pollingInterval,
       _pollingId, windowSubscribed, connectionSubscribed, intervalActive >>

\* C1: addListener(fn) calls fn exactly once inside the call, with the stored
\* snapshot, and leaves the new registration at the last position of the
\* registry.
C1_AddListenerCallsOnce ==
    last.op = "addListener" =>
      /\ Called = << [fn |-> last.fn, reg |-> last.reg, info |-> last.prevInfo] >>
      /\ _networkInfo = last.prevInfo
      /\ _listeners = Append(last.prevListeners, [fn |-> last.fn, reg |-> last.reg])

C1_Witness ==
    /\ last.op = "addListener"
    /\ ~last.raised
    /\ Len(_listeners) >= 2
    /\ Len(calls) = 1

\* C2: a refresh() whose recomputed snapshot differs from the stored one in
\* one of the seven fields stores it, calls every registered listener once
\* with it in registration order, and returns it.
C2_RefreshNotifiesOnChange ==
    (last.op = "refresh" /\ ~FieldwiseEqual(last.prevInfo, getNetworkInfo(env))) =>
      /\ _networkInfo = getNetworkInfo(env)
      /\ Called = Batch(last.prevListeners, getNetworkInfo(env))
      /\ last.returned = Some(getNetworkInfo(env))

C2_Witness ==
    /\ last.op = "refresh"
    /\ ~FieldwiseEqual(last.prevInfo, _networkInfo)
    /\ Len(calls) >= 2
    /\ calls[1].fn # calls[2].fn

\* C3: a refresh() whose recomputed snapshot is field-wise equal to the
\* stored one calls no listener; a refresh() right after a refresh() with the
\* environment unchanged returns the same snapshot and calls no listener.
C3_RefreshQuietWhenUnchanged ==
    [][ /\ (last'.op = "refresh" /\ FieldwiseEqual(_networkInfo, last'.returned[1]))
             => calls' = <<>>
        /\ (last.op = "refresh" /\ last'.op = "refresh" /\ env' = env)
             => (calls' = <<>> /\ FieldwiseEqual(last.returned[1], last'.returned[1]))
      ]_vars

C3_Witness ==
    /\ last.op = "refresh"
    /\ FieldwiseEqual(last.prevInfo, last.returned[1])
    /\ Len(_listeners) >= 2
    /\ calls = <<>>

\* C4: when a listener throws in a notification batch, every registered
\* listener is still called in that batch, nothing is raised to the trigger
\* and the registry (the thrower included) is as before.
C4_ThrowIsIsolated ==
    (last.op \in BatchOps /\ \E i \in DOMAIN calls : Behaviour(calls[i].fn) = "throw") =>
      /\ Called = Batch(last.prevListeners, _networkInfo)
      /\ ~last.raised
      /\ _listeners = last.prevListeners

C4_Witness ==
    /\ last.op \in TriggerOps
    /\ Len(calls) >= 2
    /\ Behaviour(calls[1].fn) = "throw"
    /\ Behaviour(calls[2].fn) = "return"
    /\ _listeners = last.prevListeners

\* C5: after destroy() an environment event notifies no listener and the
\* poll timer does not fire; a destroy() right after a destroy() changes
\* nothing and raises nothing.
C5_QuietAfterDestroy ==
    [][ /\ (destroyed /\ last'.op \in {"online", "offline", "change"}) => calls' = <<>>
        /\ destroyed => last'.op # "poll"
        /\ (last.op = "destroy" /\ last'.op = "destroy")
             => (UNCHANGED MonitorVars /\ ~last'.raised)
      ]_vars

\* C6: no listener is called once destroy() has been called.
C6_NoCallAfterDestroy == \A i \in DOMAIN calls : ~calls[i].destroyed

\* C7: after destroy() the host holds neither the monitor's timer nor any of
\* its environment subscriptions.
C7_AllReleasedByDestroy ==
    destroyed => (~intervalActive /\ ~windowSubscribed /\ ~connectionSubscribed)

\* C8: an unsubscribe handle removes the registration of its own addListener
\* call and nothing else; the other registrations keep their order.
C8_UnsubscribeRemovesOwnOnly ==
    last.op = "unsubscribe" =>
      _listeners = SelectSeq(last.prevListeners, LAMBDA l : l.reg # last.reg)

\* C9: no operation of the monitor raises a listener's fault to its caller,
\* and addListener returns an unsubscribe handle.
C9_NothingRaised ==
    /\ ~last.raised
    /\ last.op = "addListener" => [fn |-> last.fn, reg |-> last.reg] \in handles

\* the record the last operation started from (a trigger changes nothing of
\* it but the snapshot, the registry and destroyed)
Before ==
    [Cur EXCEPT !._networkInfo = last.prevInfo, !._listeners = last.prevListeners,
                !.destroyed = last.prevDestroyed]

\* C10: an online event, an offline event, a connection change event and a
\* poll tick leave the stored snapshot and call the listeners exactly as
\* refresh() does from the same state.
C10_TriggersRefresh ==
    last.op \in TriggerOps =>
      LET r == refreshNetworkInfo(Before, env) IN
        /\ FieldwiseEqual(_networkInfo, r._networkInfo)
        /\ calls = r.calls
        /\ last.raised = r.thrown
        /\ _listeners = r._listeners

C10_Witness ==
    /\ last.op \in {"online", "offline", "change"}
    /\ Len(calls) >= 2
    /\ ~FieldwiseEqual(last.prevInfo, _networkInfo)

\* every snapshot the last operation stored, delivered or returned
Snapshots ==
    {_networkInfo} \cup {calls[i].info : i \in DOMAIN calls}
    \cup {last.returned[i] : i \in DOMAIN last.returned}

\* the descriptor fields as the classifier's caller sees them (None: the
\* host exposes no descriptor)
DescriptorOf(e) ==
    IF getNetworkConnection(e) = None THEN EmptyDescriptor ELSE getNetworkConnection(e)[1]

\* C11: offline is authoritative: when the host is not online the type is
\* offline and the speed unknown whatever the descriptor says, and in every
\* snapshot stored or delivered online = false exactly when type = offline,
\* and online = false implies speed = unknown.
C11_OfflineIsAuthoritative ==
    /\ ~isOnline(env) => (getNetworkType(env) = "offline" /\ getNetworkSpeed(env) = "unknown")
    /\ \A info \in Snapshots :
         /\ (info.online = FALSE) <=> (info.type = "offline")
         /\ (info.online = FALSE) => (info.speed = "unknown")

\* an offline snapshot of a fast 4g wifi descriptor has been delivered
C11_Witness ==
    /\ ~isOnline(env)
    /\ DescriptorOf(env).type = Some("wifi")
    /\ DescriptorOf(env).downlink = Some(GoodBelow)
    /\ \E i \in DOMAIN calls : ~calls[i].info.online /\ calls[i].info.downlink = Some(GoodBelow)

\* the band the claim gives a downlink d (an optional number) of a host
SpeedBand(online, d) ==
    IF ~online \/ d = None THEN "unknown"
    ELSE IF d[1] < SlowBelow THEN "slow"
    ELSE IF d[1] < ModerateBelow THEN "moderate"
    ELSE IF d[1] < GoodBelow THEN "good"
    ELSE "excellent"

\* C12: the speed is unknown exactly when the host is offline or exposes no
\* downlink; every present downlink d >= 0 of an online host is slow below
\* 0.5 Mbps, moderate below 2, good below 10, excellent from 10 on.
C12_SpeedBands ==
    /\ getNetworkSpeed(env) = SpeedBand(isOnline(env), DescriptorOf(env).downlink)
    /\ \A info \in Snapshots : info.speed = SpeedBand(info.online, info.downlink)

\* C13: an online host whose descriptor has neither type nor effectiveType
\* is 5g exactly when downlink and rtt are both present with downlink >= 50
\* Mbps and rtt < 30 ms, and unknown otherwise; with a type or an
\* effectiveType present the result is never 5g.
C13_FiveGHeuristic ==
    LET c == DescriptorOf(env) IN
    /\ (isOnline(env) /\ getNetworkConnection(env) # None
          /\ c.type = None /\ c.effectiveType = None) =>
         getNetworkType(env) =
           IF /\ c.downlink # None /\ c.rtt # None
              /\ c.downlink[1] >= FiveGDownlink /\ c.rtt[1] < FiveGRtt
           THEN "5g" ELSE "unknown"
    /\ (c.type # None \/ c.effectiveType # None) => getNetworkType(env) # "5g"

\* the generation an effectiveType names, other when it names none
Generation(et, other) ==
    IF et = None THEN other
    ELSE IF et[1] \in {"slow-2g", "2g"} THEN "2g"
    ELSE IF et[1] = "3g" THEN "3g"
    ELSE IF et[1] = "4g" THEN "4g"
    ELSE other

\* the priority table for an online host with descriptor c (an optional)
PriorityTable(c) ==
    IF c = None THEN "unknown"
    ELSE IF c[1].type = Some("ethernet") THEN "ethernet"
    ELSE IF c[1].type = Some("wifi") THEN "wifi"
    ELSE IF c[1].type = Some("cellular") THEN Generation(c[1].effectiveType, "cellular")
    ELSE IF c[1].type # None THEN "unknown"
    ELSE Generation(c[1].effectiveType, "unknown")

\* the inputs the table speaks about: online, and no descriptor, or a type,
\* or an effectiveType
InTable(e) ==
    /\ isOnline(e)
    /\ \/ getNetworkConnection(e) = None
       \/ DescriptorOf(e).type # None
       \/ DescriptorOf(e).effectiveType # None

\* C14: for an online host the type follows the priority table (no
\* descriptor: unknown; ethernet; wifi; cellular refined by effectiveType;
\* any other explicit type: unknown even with an effectiveType; no type:
\* the effectiveType mapping), and it is a function of the online flag and
\* the descriptor alone: whatever happened before, a snapshot built from the
\* host carries the type of the table.
C14_PriorityTable ==
    /\ InTable(env) => getNetworkType(env) = PriorityTable(getNetworkConnection(env))
    /\ (InTable(env) /\ last.op \in {"refresh", "online", "offline"}) =>
         _networkInfo.type = PriorityTable(getNetworkConnection(env))

\* a refresh of an explicit type outside the list that carries a 4g effectiveType
C14_Witness ==
    /\ last.op = "refresh"
    /\ isOnline(env)
    /\ DescriptorOf(env).type = Some("bluetooth")
    /\ DescriptorOf(env).effectiveType = Some("4g")
    /\ ~last.prevInfo.online

\* the sum, the least and the greatest of the numbers of a sequence
RECURSIVE Total(_, _)
Total(r, n) == IF n = 0 THEN 0 ELSE r[n] + Total(r, n - 1)

Least(r) == CHOOSE x \in {r[i] : i \in DOMAIN r} : \A i \in DOMAIN r : x <= r[i]

Greatest(r) == CHOOSE x \in {r[i] : i \in DOMAIN r} : \A i \in DOMAIN r : x >= r[i]

\* C15: with k successful samples measureNetworkLatency returns, for k > 2,
\* the mean of the k - 2 values left when one minimum and one maximum are
\* discarded, and for k = 1 or 2 the plain mean; the samples 50, 52, 48,
\* 500, 51 give 51.
C15_TrimmedMean ==
    /\ latency.promise = "resolved" =>
         LET r == latency.results
             k == Len(r)
         IN /\ k >= 1
            /\ latency.outcome[1] =
                 IF k > 2
                 THEN Quotient(Total(r, k) - Least(r) - Greatest(r), k - 2)
                 ELSE Quotient(Total(r, k), k)
    /\ (latency.promise = "resolved" /\ latency.results = << 50, 52, 48, 500, 51 >>) =>
         latency.outcome[1].num = 51 * latency.outcome[1].den

\* the call with the samples 50, 52, 48, 500, 51 has returned
C15_Witness ==
    /\ latency.promise = "resolved"
    /\ latency.results = << 50, 52, 48, 500, 51 >>

\* the attempts among the events of a latency call
Attempts(ev) == {j \in DOMAIN ev : ev[j] \in {"ok", "failed"}}

\* C16: measureNetworkLatency makes exactly `samples` attempts one after
\* another, with a pacing delay between consecutive attempts and none after
\* the last; a failed attempt adds no sample, is not repeated and does not
\* end the call; the call fails (no samples) exactly when no attempt
\* succeeded.
C16_AttemptsAndPacing ==
    LET ev == latency.events
        settled == latency.promise \in {"resolved", "rejected"}
    IN latency.promise # "none" =>
         /\ \A j \in DOMAIN ev : (ev[j] = "paced") <=> (j % 2 = 0)
         /\ Cardinality(Attempts(ev)) <= latency.samples
         /\ Len(latency.results) = Cardinality({j \in DOMAIN ev : ev[j] = "ok"})
         /\ settled <=> Cardinality(Attempts(ev)) = latency.samples
         /\ settled => (ev = <<>> \/ ev[Len(ev)] # "paced")
         /\ settled => ((latency.promise = "rejected") <=> (latency.results = <<>>))
         /\ latency.promise = "rejected" =>
              latency.outcome = Some("Failed to measure network latency")

\* a call of five attempts has returned although its first and last failed
C16_Witness ==
    /\ latency.promise = "resolved"
    /\ latency.samples = DefaultSamples
    /\ latency.events[1] = "failed"
    /\ latency.events[Len(latency.events)] = "failed"
    /\ Len(latency.results) = DefaultSamples - 2

\* C17: measureDownloadSpeed settles once: with the timeout error when the
\* body has not been read when timeoutMs elapse, with the transport error
\* when the request fails before, else with the throughput; what arrives
\* after the timeout leaves the outcome as it is, and the timer never fires
\* after a success or a transport failure.
C17_SettlesOnce ==
    LET ev == download.events IN
    download.promise # "none" =>
      /\ (download.promise = "pending") <=> (ev = <<>>)
      /\ Len(ev) <= 2
      /\ \A j \in DOMAIN ev : j > 1 => ev[j] # "timeout"
      /\ ev # <<>> =>
           CASE ev[1] = "timeout" ->
                  /\ download.promise = "rejected"
                  /\ download.outcome = Some("Network speed test timed out")
             [] ev[1] = "failure" ->
                  /\ download.promise = "rejected"
                  /\ download.outcome = Some("transport error")
                  /\ download.timeout = "cleared"
             [] OTHER ->
                  /\ download.promise = "resolved"
                  /\ \E durationMs \in DurationsMs :
                       download.outcome = Some(speedMbps(download.sampleSize, durationMs))
                  /\ download.timeout = "cleared"

\* the body arrived after the timeout had been reported
C17_Witness ==
    /\ download.events = << "timeout", "body" >>
    /\ download.promise = "rejected"
    /\ download.request = "done"

\* what measureNetworkPerformance() has reported, against its two probes
PerformanceOutcome ==
    /\ performance.promise = "resolved" =>
         /\ download.promise = "resolved"
         /\ latency.promise = "resolved"
         /\ performance.outcome = Some([downloadSpeed |-> download.outcome[1],
                                        latency |-> latency.outcome[1]])
    /\ performance.promise = "rejected" =>
         \/ download.promise = "rejected" /\ performance.outcome = download.outcome
         \/ latency.promise = "rejected" /\ performance.outcome = latency.outcome
    /\ performance.promise = "pending" =>
         /\ download.promise # "rejected"
         /\ latency.promise # "rejected"
         /\ download.promise = "pending" \/ latency.promise = "pending"

\* C18: measureNetworkPerformance() starts both probes at once, resolves
\* with both results only when both succeeded and rejects with the probe's
\* failure otherwise; whatever the triggers do meanwhile and however the
\* probes end, no step of the measurement changes the stored snapshot, the
\* registry, the timer, the subscriptions or the destroyed state, or calls a
\* listener.
C18_ProbesLeaveMonitorAlone ==
    [][ /\ << download, latency, performance >>' # << download, latency, performance >> =>
             /\ UNCHANGED << MonitorVars, destroyed, env >>
             /\ calls' = <<>> \/ UNCHANGED << calls, last >>
             /\ ~last'.raised
        /\ (performance.promise # "pending" /\ performance'.promise = "pending") =>
             /\ download'.request = "inflight" /\ download'.timeout = "armed"
             /\ latency'.phase = "fetch" /\ latency'.events = <<>>
        /\ PerformanceOutcome' ]_vars

\* the measurement was rejected for want of samples after its download had
\* succeeded, and a poll tick has notified a listener meanwhile
C18_Witness ==
    /\ performance.promise = "rejected"
    /\ performance.outcome = Some("Failed to measure network latency")
    /\ download.promise = "resolved"
    /\ last.op = "poll"
    /\ calls # <<>>

\* C19: every call of measureDownloadSpeed, measureNetworkLatency and
\* measureNetworkPerformance settles in the end when the timers fire, also
\* when a request of the host is never answered.
C19_EveryCallSettles ==
    /\ (download.promise = "pending") ~> (download.promise # "pending")
    /\ (latency.promise = "pending") ~> (latency.promise # "pending")
    /\ (performance.promise = "pending") ~> (performance.promise # "pending")

\* C20: within one change notification the stored snapshot is replaced
\* before the first listener is called, every listener of the batch gets
\* that same snapshot, and no other snapshot is built between the first and
\* the last call of the batch, whatever the listeners do (a listener may
\* call refresh() itself after the host has changed again).
C20_BatchIsAtomic ==
    \A i \in DOMAIN calls :
      calls[i].batch # 0 =>
        /\ calls[i].info = calls[i].batchInfo[1]
        /\ calls[i].epoch = calls[i].batch

\* C23: right after construction the stored snapshot is the one built from
\* the host at that moment and no listener has been called; with a poll
\* interval of 0 or less no timer is started and no poll tick ever occurs;
\* with a poll interval above 0 the monitor holds its one recurring timer
\* as long as it is not destroyed.
C23_Construction ==
    /\ last.op = "new" =>
         /\ FieldwiseEqual(_networkInfo, getNetworkInfo(env))
         /\ calls = <<>>
         /\ _listeners = <<>>
    /\ \A p \in {0, -1} :
         /\ ~constructor(env, p).intervalActive
         /\ constructor(env, p)._pollingId = None
         /\ constructor(env, p).calls = <<>>
    /\ constructor(env, DefaultPollingIntervalMs).intervalActive
    /\ constructor(env, DefaultPollingIntervalMs)._pollingId # None
    /\ _pollingInterval = None => (~intervalActive /\ _pollingId = None /\ last.op # "poll")
    /\ (_pollingInterval # None /\ ~destroyed) => (intervalActive /\ _pollingId # None)

\* a monitor with a poll timer has just been constructed in an offline worker
C23_Witness ==
    /\ last.op = "new"
    /\ intervalActive
    /\ env.shape = WorkerShape
    /\ ~env.onLine

\* the snapshot of a host that exposes nothing
DefaultInfo ==
    [ online |-> TRUE, type |-> "unknown", speed |-> "unknown", downlink |-> None,
      rtt |-> None, effectiveType |-> None, saveData |-> None ]

\* C24: where the host exposes no online flag, no event subscription and no
\* connection descriptor, or a descriptor whose change subscription fails,
\* constructing a monitor, refresh(), addListener and destroy() raise
\* nothing; where it exposes nothing isOnline is true and the snapshot is
\* online, type unknown, speed unknown with the four optional fields absent.
C24_DegradesToDefaults ==
    (env.shape = BareShape \/ env.shape.connectionThrows) =>
      /\ \A p \in PollingIntervals : ~constructor(env, p).thrown
      /\ ~last.raised
      /\ env.shape = BareShape =>
           /\ isOnline(env)
           /\ getNetworkInfo(env) = DefaultInfo
           /\ \A info \in Snapshots : info = DefaultInfo

\* in a bare runtime a monitor with a listener has been destroyed
C24_Witness ==
    /\ env.shape = BareShape
    /\ last.op = "destroy"
    /\ last.prevListeners # <<>>
    /\ _networkInfo = DefaultInfo

\* the snapshot registration reg was last called with before invocation i
\* of the last operation (None: it had not been called)
PriorCall(i) ==
    LET earlier == {j \in 1 .. (i - 1) : calls[j].reg = calls[i].reg} IN
    IF earlier = {}
    THEN last.prevDelivered[calls[i].reg]
    ELSE Some(calls[CHOOSE j \in earlier : \A k \in earlier : k <= j].info)

\* C21: whatever the sequence of events, poll ticks and refresh calls,
\* nested ones included, no registration is called twice in a row with
\* field-wise equal snapshots: after its first, immediate call it sees real
\* changes only.
C21_NoRedundantNotification ==
    delivered # NotWatched =>
      \A i \in DOMAIN calls :
        PriorCall(i) = None \/ ~FieldwiseEqual(PriorCall(i)[1], calls[i].info)

\* the stored snapshot and the last one every registered listener was called
\* with are the snapshot of the host as it is
Consistent ==
    /\ FieldwiseEqual(_networkInfo, getNetworkInfo(env))
    /\ \A k \in DOMAIN _listeners :
         /\ delivered[_listeners[k].reg] # None
         /\ FieldwiseEqual(delivered[_listeners[k].reg][1], getNetworkInfo(env))

\* C22: a monitor constructed with a poll interval above 0 and not
\* destroyed catches up with its host: when the timer keeps firing, the
\* stored snapshot becomes the one built from the host and every registered
\* listener has been called with it, with no environment event delivered
\* and in every kind of host.
C22_EventuallyConsistent ==
    (_pollingInterval # None /\ ~destroyed) ~> (destroyed \/ Consistent)

\* in a worker, where no event exists, a poll tick has brought two
\* listeners up to date
C22_Witness ==
    /\ env.shape = WorkerShape
    /\ last.op = "poll"
    /\ Len(calls) >= 2
    /\ ~FieldwiseEqual(last.prevInfo, _networkInfo)
    /\ Consistent

\* the operations that build a snapshot from the host
RecomputeOps == BatchOps

\* C25: the stored snapshot changes only by a recomputation inside the
\* monitor: after a refresh, an environment event or a poll tick it is the
\* snapshot built from the host, and after any other operation (a listener
\* being registered and called, an unsubscribe, destroy) it is what it was
\* before, whatever the consumers do with the objects they were handed.
C25_SnapshotOwned ==
    /\ last.op \in RecomputeOps => _networkInfo = getNetworkInfo(env)
    /\ last.op \notin RecomputeOps => _networkInfo = last.prevInfo

\* the registrations called by the last operation that were not in the
\* registry when it began
NewRegs ==
    {calls[i].reg : i \in DOMAIN calls}
      \ {last.prevListeners[k].reg : k \in DOMAIN last.prevListeners}

\* C26: a registration whose unsubscribe handle has been called is not
\* invoked again, also when the handle was called by a listener earlier in
\* the batch that is still running; calling the handle invokes nobody and
\* leaves the registration out of the registry; a registration made while
\* an operation runs is invoked once, by its own addListener, and not by
\* the running batch.
C26_UnsubscribeIsFinal ==
    /\ \A i \in DOMAIN calls : calls[i].reg \notin calls[i].revoked
    /\ last.op = "unsubscribe" =>
         /\ calls = <<>>
         /\ \A k \in DOMAIN _listeners : _listeners[k].reg # last.reg
    /\ \A reg \in NewRegs : Cardinality({i \in DOMAIN calls : calls[i].reg = reg}) = 1

\* the registrations of an array, in its order
RegsOf(arr) == [k \in DOMAIN arr |-> arr[k].reg]

\* the listeners registered for the event when the last operation began
RegisteredBefore ==
    IF emitter.prevEvents[emitter.event] = None THEN <<>>
    ELSE emitter.prevEvents[emitter.event][1]

\* C27: emit(event) invokes every listener registered for the event when
\* it starts, once each and in registration order, listeners registered
\* with once() and listeners that throw included; a once-listener that was
\* invoked is no longer registered afterwards; emit returns true iff the
\* event had listeners.
C27_EmitCallsEveryListener ==
    emitter.op = "emit" =>
      /\ RegsOf(emitter.calls) = RegsOf(RegisteredBefore)
      /\ emitter.returned = Some(RegisteredBefore # <<>>)
      /\ \A i \in DOMAIN emitter.calls :
           emitter.calls[i].once =>
             \A k \in DOMAIN liveArray(emitter, emitter.event) :
               liveArray(emitter, emitter.event)[k].reg # emitter.calls[i].reg

====
